---- MODULE Spec2Model ----
(***************************************************************************)
(* Model of server.js, the Express relay in front of the Gemini            *)
(* generateContent endpoint.                                                *)
(*                                                                         *)
(* State: the process (starting / running / exited, exit code, the trace   *)
(* of the last process-level handler), the process-wide GEMINI_API_KEY,    *)
(* and MaxReq request slots.  A slot holds one request/response cycle: the *)
(* body on the wire, the position of the async handler (the awaits of      *)
(* lines 41, 52 and 58 are the suspension points), the outbound calls it   *)
(* made, what the upstream did, the ordered trace of log lines and sends,  *)
(* and the responses sent.                                                 *)
(***************************************************************************)
EXTENDS Integers, Sequences, FiniteSets

\* Number of requests that can be in flight or completed side by side.
MaxReq == 2

ReqIds == 1..MaxReq

(***************************************************************************)
(* JSON.  A text on the wire and the JavaScript value it parses to are     *)
(* different things: a number literal m * 10^e is read into an IEEE double *)
(* and a literal beyond the largest double becomes Infinity, which         *)
(* JSON.stringify writes back as null.                                     *)
(***************************************************************************)
Num(m, e) == [kind |-> "num", m |-> m, e |-> e, s |-> ""]
Str(s) == [kind |-> "str", m |-> 0, e |-> 0, s |-> s]
Null == [kind |-> "null", m |-> 0, e |-> 0, s |-> ""]
Infinity == [kind |-> "inf", m |-> 0, e |-> 0, s |-> ""]

\* The one-member object {"x": v}, as a text or as a value.
Obj(v) == [top |-> "obj", val |-> v]
\* No document (an absent member, an absent body).
NoDoc == [top |-> "none", val |-> Null]

\* m * 10^e (m >= 1) exceeds Number.MAX_VALUE = 1.7976931348623157e308.
DoubleOverflows(m, e) == e > 308 \/ (e = 308 /\ m >= 2)

\* JSON.parse on a scalar literal.
ParseScalar(t) ==
    IF t.kind = "num" /\ DoubleOverflows(t.m, t.e) THEN Infinity ELSE t

\* JSON.stringify on a scalar value: a non-finite number is written as null.
StringifyScalar(v) ==
    IF v.kind = "inf" THEN Null ELSE v

\* JSON.parse of a document: express.json() for the request (line 19),
\* response.json() for the upstream body (lines 52, 58).
JSON_parse(doc) == [top |-> doc.top, val |-> ParseScalar(doc.val)]

\* JSON.stringify of a value: the outbound body (line 46), res.json (54, 62, 67).
JSON_stringify(v) == [top |-> v.top, val |-> StringifyScalar(v.val)]

\* Request bodies a caller may post: JSON objects, which express.json() accepts.
RequestBodies ==
    { Obj(Str("hi")), Obj(Num(2, 308)) }

(***************************************************************************)
(* Configuration                                                           *)
(***************************************************************************)
\* process.env.GEMINI_API_KEY when the variable is not set (falsy).
Unset == ""
Keys == {"ABC123"}

\* The URL of the outbound call, as its pieces in order (line 42).
GeminiUrl(key) ==
    << "https://generativelanguage.googleapis.com/v1beta/models/gemini-2.0-flash:",
       "generateContent?key=", key >>

(***************************************************************************)
(* The upstream                                                            *)
(***************************************************************************)
\* Why fetch() rejects: connection failure, transport timeout.
ThrowReasons == {"ECONNREFUSED", "ETIMEDOUT"}
\* Status codes the upstream may answer with.
Statuses == {200, 201, 403}
\* response.ok
Ok(status) == status >= 200 /\ status <= 299

\* An upstream body: a JSON text, or something that is no JSON (an HTML page).
NotJson == [parses |-> FALSE, doc |-> NoDoc]
JsonBody(doc) == [parses |-> TRUE, doc |-> doc]
UpstreamBodies ==
    { NotJson, JsonBody(Obj(Str("bad key"))), JsonBody(Obj(Num(2, 308))) }

NoUpstream == [state |-> "none", reason |-> "", status |-> 0, body |-> NotJson]

\* error.message of the error fetch() rejects with: node-fetch's FetchError
\* names the request URL.
FetchErrorMessage(url, reason) ==
    << "request to " >> \o url \o << " failed, reason: ", reason >>

\* error.message of the error response.json() rejects with: node-fetch 2 wraps
\* the SyntaxError in a FetchError naming the URL, node-fetch 3 lets the
\* SyntaxError through.
JsonErrorMessage(major, url) ==
    IF major = 2
    THEN << "invalid json response body at " >> \o url
            \o << " reason: ", "Unexpected token < in JSON at position 0" >>
    ELSE << "Unexpected token < in JSON at position 0" >>

(***************************************************************************)
(* Responses and log lines                                                 *)
(***************************************************************************)
\* A response body.  form "envelope": {error[, details]}, details being a
\* message (msg) or a JSON document (json); form "data": the document json;
\* form "text": the string text.
EnvelopeMsg(error, msg) ==
    [form |-> "envelope", error |-> error, hasDetails |-> TRUE, msg |-> msg,
     json |-> NoDoc, text |-> ""]
EnvelopeJson(error, doc) ==
    [form |-> "envelope", error |-> error, hasDetails |-> TRUE, msg |-> << >>,
     json |-> doc, text |-> ""]
EnvelopeBare(error) ==
    [form |-> "envelope", error |-> error, hasDetails |-> FALSE, msg |-> << >>,
     json |-> NoDoc, text |-> ""]
DataBody(doc) ==
    [form |-> "data", error |-> "", hasDetails |-> FALSE, msg |-> << >>,
     json |-> doc, text |-> ""]
TextBody(s) ==
    [form |-> "text", error |-> "", hasDetails |-> FALSE, msg |-> << >>,
     json |-> NoDoc, text |-> s]

\* A response: res.status(s).json(v) and res.json(v) send v serialized with
\* JSON.stringify (ctype "json"); res.send(string) sends text.
Response(status, ctype, body) == [status |-> status, ctype |-> ctype, body |-> body]

\* An entry of a trace: a console line (every template of the file starts with
\* the ISO timestamp), a response sent, an outbound call, a process exit.
LogLine(level, what) == [ev |-> "log", level |-> level, stamped |-> TRUE, what |-> what]
Sent == [ev |-> "send", level |-> "-", stamped |-> FALSE, what |-> "response"]
Fetched == [ev |-> "fetch", level |-> "-", stamped |-> FALSE, what |-> "outbound"]
Exited == [ev |-> "exit", level |-> "-", stamped |-> FALSE, what |-> "process.exit"]

VARIABLES
    GEMINI_API_KEY,  \* the secret, or Unset
    nodeFetchMajor,  \* major version of the node-fetch the build installs
    proc,            \* "starting", "running", "exited"
    exitCode,        \* -1 while the process lives
    procEvent,       \* the last process-level event dispatched
    procTrace,       \* log lines and exit of the last process-level handler
    pc,              \* per slot: position of the handler
    route,           \* per slot: "none", "ask", "health"
    reqBody,         \* per slot: the request body on the wire
    outbound,        \* per slot: the outbound calls issued
    up,              \* per slot: what the upstream did
    events,          \* per slot: log lines, outbound calls and sends, in order
    resp             \* per slot: the responses sent

vars == << GEMINI_API_KEY, nodeFetchMajor, proc, exitCode, procEvent, procTrace,
           pc, route, reqBody, outbound, up, events, resp >>

config == << GEMINI_API_KEY, nodeFetchMajor >>
process == << proc, exitCode, procEvent, procTrace >>
slots == << pc, route, reqBody, outbound, up, events, resp >>

Init ==
    /\ GEMINI_API_KEY \in Keys \cup {Unset}
    /\ nodeFetchMajor \in {2, 3}
    /\ proc = "starting"
    /\ exitCode = -1
    /\ procEvent = "none"
    /\ procTrace = << >>
    /\ pc = [r \in ReqIds |-> "idle"]
    /\ route = [r \in ReqIds |-> "none"]
    /\ reqBody = [r \in ReqIds |-> NoDoc]
    /\ outbound = [r \in ReqIds |-> << >>]
    /\ up = [r \in ReqIds |-> NoUpstream]
    /\ events = [r \in ReqIds |-> << >>]
    /\ resp = [r \in ReqIds |-> << >>]

(***************************************************************************)
(* Process-level handlers                                                  *)
(***************************************************************************)
\* app.listen's callback: the port is bound.
Listen ==
    /\ proc = "starting"
    /\ proc' = "running"
    /\ procEvent' = "listening"
    /\ procTrace' = << LogLine("log", "Server running on port") >>
                    \o (IF GEMINI_API_KEY = Unset
                        THEN << LogLine("warn", "WARNING: GEMINI_API_KEY is NOT set!") >>
                        ELSE << >>)
    /\ UNCHANGED << exitCode, config, slots >>

\* server.on('error'): the port could not be bound.
OnServerError ==
    /\ proc = "starting"
    /\ procEvent' = "error"
    /\ procTrace' = << LogLine("error", "FATAL SERVER ERROR: Failed to start server"),
                       Exited >>
    /\ proc' = "exited"
    /\ exitCode' = 1
    /\ UNCHANGED << config, slots >>

\* process.on('unhandledRejection'): logs; the exit is commented out and a
\* registered listener keeps Node from ending the process itself.
OnUnhandledRejection ==
    /\ proc = "running"
    /\ procEvent' = "unhandledRejection"
    /\ procTrace' = << LogLine("error", "UNHANDLED REJECTION:") >>
    /\ UNCHANGED << proc, exitCode, config, slots >>

\* Variant of OnUncaughtException that logs and leaves the process running.
OnUncaughtException_LogOnly ==
    /\ proc = "running"
    /\ procEvent' = "uncaughtException"
    /\ procTrace' = << LogLine("error", "UNCAUGHT EXCEPTION:") >>
    /\ UNCHANGED << proc, exitCode, config, slots >>

\* process.on('uncaughtException'): logs and exits.
OnUncaughtException ==
    /\ proc = "running"
    /\ procEvent' = "uncaughtException"
    /\ procTrace' = << LogLine("error", "UNCAUGHT EXCEPTION:"), Exited >>
    /\ proc' = "exited"
    /\ exitCode' = 1
    /\ UNCHANGED << config, slots >>

(***************************************************************************)
(* Request handlers                                                        *)
(***************************************************************************)
\* A request is taken into a slot that holds no cycle in progress; the cycle a
\* finished slot held is discarded.
Free(r) == pc[r] \in {"idle", "done"}

\* The logger middleware of line 22 and the first line of the route.
AskPrologue ==
    << LogLine("log", "Incoming request: POST /ask-gemini"),
       LogLine("log", "/ask-gemini route hit! Attempting to call Gemini.") >>

\* Variant of KeyMissing that never notices the missing key.
KeyMissing_Never(key) == FALSE

\* if (!GEMINI_API_KEY)
KeyMissing(key) == key = Unset

\* The configuration-error branch: log, then respond.
ConfigErrorTrace ==
    << LogLine("error", "ERROR: GEMINI_API_KEY is NOT set in environment variables!"),
       Sent >>
ConfigErrorResponse ==
    Response(500, "json",
             EnvelopeBare("Server configuration error: Gemini API Key missing."))

\* The fetch call: body is the value express.json() parsed, stringified again.
OutboundCall(key, body) ==
    [url |-> GeminiUrl(key), method |-> "POST", ctype |-> "application/json",
     body |-> JSON_stringify(body)]

\* POST /ask-gemini, up to the await of fetch (or to the early return).
AskGemini(r, B) ==
    /\ proc = "running"
    /\ Free(r)
    /\ route' = [route EXCEPT ![r] = "ask"]
    /\ reqBody' = [reqBody EXCEPT ![r] = B]
    /\ up' = [up EXCEPT ![r] = NoUpstream]
    /\ IF KeyMissing(GEMINI_API_KEY)
       THEN /\ events' = [events EXCEPT ![r] = AskPrologue \o ConfigErrorTrace]
            /\ resp' = [resp EXCEPT ![r] = << ConfigErrorResponse >>]
            /\ outbound' = [outbound EXCEPT ![r] = << >>]
            /\ pc' = [pc EXCEPT ![r] = "done"]
       ELSE LET body == JSON_parse(B) IN
            /\ events' = [events EXCEPT ![r] =
                            AskPrologue
                            \o << LogLine("log", "Request body received for Gemini:"),
                                  Fetched >>]
            /\ resp' = [resp EXCEPT ![r] = << >>]
            /\ outbound' = [outbound EXCEPT ![r] =
                              << OutboundCall(GEMINI_API_KEY, body) >>]
            /\ pc' = [pc EXCEPT ![r] = "await_fetch"]
    /\ UNCHANGED << config, process >>

\* Variant of CatchTrace that responds before it logs.
CatchTrace_SendFirst ==
    << Sent, LogLine("error", "Uncaught error in /ask-gemini endpoint:") >>

\* Variant of CatchResponse that sends an empty details field.
CatchResponse_NoDetails(message) ==
    Response(500, "json", EnvelopeMsg("Failed to communicate with AI.", << >>))

\* Variant of Catch that logs the error and sends nothing.
Catch_Swallow(r, message) ==
    /\ events' = [events EXCEPT ![r] =
                    @ \o << LogLine("error", "Uncaught error in /ask-gemini endpoint:") >>]
    /\ resp' = resp
    /\ pc' = [pc EXCEPT ![r] = "done"]

\* The catch block: log, then respond 500 with error.message as details.
CatchTrace ==
    << LogLine("error", "Uncaught error in /ask-gemini endpoint:"), Sent >>
CatchResponse(message) ==
    Response(500, "json", EnvelopeMsg("Failed to communicate with AI.", message))

Catch(r, message) ==
    /\ events' = [events EXCEPT ![r] = @ \o CatchTrace]
    /\ resp' = [resp EXCEPT ![r] = @ \o << CatchResponse(message) >>]
    /\ pc' = [pc EXCEPT ![r] = "done"]

\* The await of fetch ends: it rejects (to the catch block), or resolves with the
\* upstream's status line, and the handler goes on to await the body.
FetchSettles(r) ==
    /\ proc = "running"
    /\ pc[r] = "await_fetch"
    /\ \/ \E reason \in ThrowReasons :
            /\ up' = [up EXCEPT ![r] = [state |-> "threw", reason |-> reason,
                                        status |-> 0, body |-> NotJson]]
            /\ Catch(r, FetchErrorMessage(outbound[r][1].url, reason))
       \/ \E status \in Statuses :
            /\ up' = [up EXCEPT ![r] = [state |-> "headers", reason |-> "",
                                        status |-> status, body |-> NotJson]]
            /\ pc' = [pc EXCEPT ![r] =
                        IF ~Ok(status) THEN "await_error_json" ELSE "await_json"]
            /\ UNCHANGED << events, resp >>
    /\ UNCHANGED << config, process, route, reqBody, outbound >>

\* Variant of ErrorWrapResponse that leaves the status at Express's default.
ErrorWrapResponse_DefaultStatus(status, errorData) ==
    Response(200, "json",
             EnvelopeJson("Gemini API error", JSON_stringify(errorData)))

\* return res.status(response.status).json({error: "Gemini API error", details})
ErrorWrapTrace ==
    << LogLine("error", "ERROR: Gemini API responded with status"), Sent >>
ErrorWrapResponse(status, errorData) ==
    Response(status, "json",
             EnvelopeJson("Gemini API error", JSON_stringify(errorData)))

\* res.json(data): the status is Express's default.
SuccessTrace ==
    << LogLine("log", "Gemini API response received."), Sent >>
SuccessResponse(data) ==
    Response(200, "json", DataBody(JSON_stringify(data)))

\* The await of response.json() ends, at line 52 or at line 58.
BodySettles(r) ==
    /\ proc = "running"
    /\ pc[r] \in {"await_error_json", "await_json"}
    /\ \E b \in UpstreamBodies :
         /\ up' = [up EXCEPT ![r] = [@ EXCEPT !.state = "body", !.body = b]]
         /\ IF ~b.parses
            THEN Catch(r, JsonErrorMessage(nodeFetchMajor, outbound[r][1].url))
            ELSE LET parsed == JSON_parse(b.doc) IN
                 /\ pc' = [pc EXCEPT ![r] = "done"]
                 /\ IF pc[r] = "await_error_json"
                    THEN /\ events' = [events EXCEPT ![r] = @ \o ErrorWrapTrace]
                         /\ resp' = [resp EXCEPT ![r] =
                                       @ \o << ErrorWrapResponse(up[r].status, parsed) >>]
                    ELSE /\ events' = [events EXCEPT ![r] = @ \o SuccessTrace]
                         /\ resp' = [resp EXCEPT ![r] =
                                       @ \o << SuccessResponse(parsed) >>]
    /\ UNCHANGED << config, process, route, reqBody, outbound >>

\* Variant of HealthResponse that reports the missing key.
HealthResponse_NeedsKey ==
    IF GEMINI_API_KEY = Unset
    THEN Response(500, "json",
                  EnvelopeBare("Server configuration error: Gemini API Key missing."))
    ELSE Response(200, "text", TextBody("Gemini Backend is running!"))

\* GET /
HealthTrace ==
    << LogLine("log", "Incoming request: GET /"),
       LogLine("log", "/ route hit! Sending 'Gemini Backend is running!'."),
       Sent >>
HealthResponse ==
    Response(200, "text", TextBody("Gemini Backend is running!"))

HealthCheck(r) ==
    /\ proc = "running"
    /\ Free(r)
    /\ route' = [route EXCEPT ![r] = "health"]
    /\ reqBody' = [reqBody EXCEPT ![r] = NoDoc]
    /\ up' = [up EXCEPT ![r] = NoUpstream]
    /\ outbound' = [outbound EXCEPT ![r] = << >>]
    /\ events' = [events EXCEPT ![r] = HealthTrace]
    /\ resp' = [resp EXCEPT ![r] = << HealthResponse >>]
    /\ pc' = [pc EXCEPT ![r] = "done"]
    /\ UNCHANGED << config, process >>

Next ==
    \/ Listen
    \/ OnServerError
    \/ OnUnhandledRejection
    \/ OnUncaughtException
    \/ \E r \in ReqIds : \E B \in RequestBodies : AskGemini(r, B)
    \/ \E r \in ReqIds : FetchSettles(r)
    \/ \E r \in ReqIds : BodySettles(r)
    \/ \E r \in ReqIds : HealthCheck(r)

Spec == Init /\ [][Next]_vars

\* The requests alone, with every outbound call eventually settling.
NextServe ==
    \/ Listen
    \/ \E r \in ReqIds : \E B \in RequestBodies : AskGemini(r, B)
    \/ \E r \in ReqIds : FetchSettles(r)
    \/ \E r \in ReqIds : BodySettles(r)
    \/ \E r \in ReqIds : HealthCheck(r)

\* An await of request r ends: at most one of the two is pending at a time.
Settles(r) == FetchSettles(r) \/ BodySettles(r)

FairSpec ==
    /\ Init
    /\ [][NextServe]_vars
    /\ \A r \in ReqIds : WF_vars(Settles(r))

(***************************************************************************)
(* Properties                                                              *)
(***************************************************************************)
KeySet == GEMINI_API_KEY # Unset
AskDone(r) == route[r] = "ask" /\ pc[r] = "done"
\* The upstream answered request r with a status and a body that parses.
Answered(r) == up[r].state = "body" /\ up[r].body.parses
\* The outbound call of request r threw, or its body was no JSON.
Failed(r) == up[r].state = "threw" \/ (up[r].state = "body" /\ ~up[r].body.parses)

\* C1: with the secret unset, every POST /ask-gemini is answered at once with
\* status 500 and exactly {"error": "Server configuration error: Gemini API Key
\* missing."}, and no outbound call is made for it.
C1_ConfigError ==
    \A r \in ReqIds :
        (~KeySet /\ route[r] = "ask") =>
            /\ pc[r] = "done"
            /\ resp[r] = << Response(500, "json",
                   EnvelopeBare("Server configuration error: Gemini API Key missing.")) >>
            /\ outbound[r] = << >>
            /\ \A i \in 1..Len(events[r]) : events[r][i].ev # "fetch"

C1_Witness ==
    /\ ~KeySet
    /\ \E r \in ReqIds : AskDone(r) /\ reqBody[r] = Obj(Str("hi")) /\ Len(resp[r]) = 1

\* C2: with the secret set, every POST /ask-gemini with body B issues exactly one
\* outbound POST, to a URL ending in generateContent?key=<secret>, whose body is
\* the same JSON value as B.
C2_PassThrough ==
    \A r \in ReqIds :
        (KeySet /\ route[r] = "ask") =>
            /\ Len(outbound[r]) = 1
            /\ outbound[r][1].method = "POST"
            /\ SubSeq(outbound[r][1].url, 2, 3)
                   = << "generateContent?key=", GEMINI_API_KEY >>
            /\ outbound[r][1].body = reqBody[r]

\* The part of C2 that does hold: exactly one outbound POST per request, to the
\* URL carrying the secret, whatever the upstream then does.
OneOutboundCallPerRequest ==
    \A r \in ReqIds :
        (KeySet /\ route[r] = "ask") =>
            /\ Len(outbound[r]) = 1
            /\ outbound[r][1].method = "POST"
            /\ SubSeq(outbound[r][1].url, 2, 3)
                   = << "generateContent?key=", GEMINI_API_KEY >>

\* C3: with the secret set, when the outbound call throws or times out, or the
\* upstream body is no JSON (under a 2xx status or not), the response is status
\* 500 with {"error": "Failed to communicate with AI.", "details": m}, m non-empty.
C3_CommFailure ==
    \A r \in ReqIds :
        (KeySet /\ AskDone(r) /\ Failed(r)) =>
            /\ Len(resp[r]) = 1
            /\ resp[r][1].status = 500
            /\ resp[r][1].ctype = "json"
            /\ resp[r][1].body.form = "envelope"
            /\ resp[r][1].body.error = "Failed to communicate with AI."
            /\ resp[r][1].body.hasDetails
            /\ Len(resp[r][1].body.msg) > 0
            /\ \A i \in 1..Len(resp[r][1].body.msg) : resp[r][1].body.msg[i] # ""

C3_Witness ==
    \E r, q \in ReqIds :
        /\ AskDone(r) /\ up[r].state = "threw" /\ up[r].reason = "ETIMEDOUT"
        /\ AskDone(q) /\ up[q].state = "body" /\ ~up[q].body.parses /\ Ok(up[q].status)

\* C4 as stated: when the upstream answers with status S and a body that parses,
\* the relay's response has status S, for every S.
C4_StatusMirrored ==
    \A r \in ReqIds :
        (KeySet /\ AskDone(r) /\ Answered(r)) =>
            (Len(resp[r]) = 1 /\ resp[r][1].status = up[r].status)

\* C4 as amended: when the upstream answers with status S and a body that parses,
\* the relay's response has status S if S is not a 2xx status, and status 200 if
\* S is any 2xx status.
C4_StatusAmended ==
    \A r \in ReqIds :
        (KeySet /\ AskDone(r) /\ Answered(r)) =>
            /\ Len(resp[r]) = 1
            /\ resp[r][1].status = IF Ok(up[r].status) THEN 200 ELSE up[r].status

C4_Witness ==
    \E r, q \in ReqIds :
        /\ AskDone(r) /\ Answered(r) /\ up[r].status = 201
        /\ AskDone(q) /\ Answered(q) /\ up[q].status = 403

\* C5: when the upstream answers non-2xx with JSON body E the response body is E
\* or {"error": "Gemini API error", "details": E}, never the generic envelope;
\* when it answers 2xx with JSON body D the response body is D unchanged.
C5_BodyRelayed ==
    \A r \in ReqIds :
        (KeySet /\ AskDone(r) /\ Answered(r)) =>
            /\ Len(resp[r]) = 1
            /\ IF Ok(up[r].status)
               THEN resp[r][1].body = DataBody(up[r].body.doc)
               ELSE resp[r][1].body \in
                        { DataBody(up[r].body.doc),
                          EnvelopeJson("Gemini API error", up[r].body.doc) }

\* The part of C5 that does hold: an answered request never gets the generic
\* envelope, a non-2xx answer is wrapped and a 2xx answer is relayed as data.
AnsweredNeverGeneric ==
    \A r \in ReqIds :
        (KeySet /\ AskDone(r) /\ Answered(r)) =>
            /\ Len(resp[r]) = 1
            /\ resp[r][1].body.error # "Failed to communicate with AI."
            /\ resp[r][1].body.form = IF Ok(up[r].status) THEN "data" ELSE "envelope"

\* C6: GET / is always answered with status 200 and the string "Gemini Backend is
\* running!", whatever was served before and whether or not the secret is set, and
\* makes no outbound call.
C6_HealthCheck ==
    \A r \in ReqIds :
        route[r] = "health" =>
            /\ pc[r] = "done"
            /\ resp[r] = << Response(200, "text", TextBody("Gemini Backend is running!")) >>
            /\ outbound[r] = << >>

C6_Witness ==
    /\ ~KeySet
    /\ \E r, q \in ReqIds :
        /\ route[r] = "health" /\ pc[r] = "done"
        /\ AskDone(q) /\ resp[q][1].status = 500

\* C7 as stated: after a bind failure, an unhandled promise rejection or an
\* uncaught exception the process has exited with code 1.
C7_AlwaysExits ==
    procEvent \in {"error", "unhandledRejection", "uncaughtException"} =>
        (proc = "exited" /\ exitCode = 1)

\* C7 as amended: after a bind failure or an uncaught exception the process has
\* exited with code 1; after an unhandled promise rejection it has only logged
\* the rejection and is still running.
C7_ExitAmended ==
    /\ procEvent \in {"error", "uncaughtException"} =>
           /\ proc = "exited"
           /\ exitCode = 1
           /\ procTrace[Len(procTrace)] = Exited
    /\ procEvent = "unhandledRejection" =>
           /\ proc = "running"
           /\ exitCode = -1
           /\ \A i \in 1..Len(procTrace) : procTrace[i].ev # "exit"
    /\ proc = "exited" <=> exitCode = 1

C7_Witness ==
    /\ procEvent = "uncaughtException"
    /\ proc = "exited"
    /\ \E r \in ReqIds : pc[r] = "await_fetch"

\* A timestamped error line.
Diagnostic(e) == e.ev = "log" /\ e.level = "error" /\ e.stamped
\* Request r was answered with an error status.
ErrorAnswer(r) == Len(resp[r]) > 0 /\ resp[r][1].status >= 400

\* C8: on every failure path (configuration error, upstream non-2xx, upstream
\* communication or parse error, bind failure, uncaught exception) a timestamped
\* diagnostic line is logged before the error response is sent or the process
\* exits.
C8_LogBeforeSendOrExit ==
    /\ \A r \in ReqIds :
         ErrorAnswer(r) =>
            /\ \E i \in 1..Len(events[r]) : events[r][i].ev = "send"
            /\ \A i \in 1..Len(events[r]) :
                 events[r][i].ev = "send" =>
                    \E j \in 1..(i - 1) : Diagnostic(events[r][j])
    /\ proc = "exited" =>
            /\ \E i \in 1..Len(procTrace) : procTrace[i].ev = "exit"
            /\ \A i \in 1..Len(procTrace) :
                 procTrace[i].ev = "exit" =>
                    \E j \in 1..(i - 1) : Diagnostic(procTrace[j])

C8_Witness ==
    /\ proc = "exited"
    /\ \E r, q \in ReqIds :
        /\ AskDone(r) /\ Answered(r) /\ ~Ok(up[r].status) /\ ErrorAnswer(r)
        /\ AskDone(q) /\ Failed(q) /\ ErrorAnswer(q)

\* C9: no response carries the secret; in particular the details of the 500
\* envelope never contain the value of GEMINI_API_KEY.
C9_NoSecretInResponse ==
    \A r \in ReqIds :
        \A i \in 1..Len(resp[r]) :
            \A k \in 1..Len(resp[r][i].body.msg) :
                KeySet => resp[r][i].body.msg[k] # GEMINI_API_KEY

\* The response request r is owed, from the configuration, its own body and its
\* own upstream outcome alone.
OwnResponse(r) ==
    IF ~KeySet
    THEN Response(500, "json",
                  EnvelopeBare("Server configuration error: Gemini API Key missing."))
    ELSE IF up[r].state = "threw"
    THEN Response(500, "json",
                  EnvelopeMsg("Failed to communicate with AI.",
                              << "request to " >> \o GeminiUrl(GEMINI_API_KEY)
                                  \o << " failed, reason: ", up[r].reason >>))
    ELSE IF ~up[r].body.parses
    THEN Response(500, "json",
                  EnvelopeMsg("Failed to communicate with AI.",
                              JsonErrorMessage(nodeFetchMajor, GeminiUrl(GEMINI_API_KEY))))
    ELSE IF Ok(up[r].status)
    THEN Response(200, "json", DataBody(JSON_stringify(JSON_parse(up[r].body.doc))))
    ELSE Response(up[r].status, "json",
                  EnvelopeJson("Gemini API error",
                               JSON_stringify(JSON_parse(up[r].body.doc))))

InFlight(r) == pc[r] \in {"await_fetch", "await_error_json", "await_json"}

\* C10: in any interleaving of concurrent POST /ask-gemini requests whose outbound
\* calls eventually settle, every request eventually receives exactly one
\* response, never two; the response is JSON and is the one owed to that request's
\* own body and its own upstream outcome.
C10_EachRequestAnswered ==
    /\ [](\A r \in ReqIds :
            /\ Len(resp[r]) <= 1
            /\ InFlight(r) =>
                  /\ resp[r] = << >>
                  /\ outbound[r] = << [url |-> GeminiUrl(GEMINI_API_KEY),
                                       method |-> "POST",
                                       ctype |-> "application/json",
                                       body |-> JSON_stringify(JSON_parse(reqBody[r]))] >>
            /\ AskDone(r) =>
                  /\ resp[r] = << OwnResponse(r) >>
                  /\ resp[r][1].ctype = "json"
                  /\ resp[r][1].body.form \in {"envelope", "data"})
    /\ \A r \in ReqIds :
          InFlight(r) ~> (AskDone(r) /\ Len(resp[r]) = 1)

C10_Witness ==
    \E r, q \in ReqIds :
        /\ r # q
        /\ AskDone(r) /\ Answered(r) /\ reqBody[r] = Obj(Str("hi"))
        /\ pc[q] = "await_json" /\ reqBody[q] = Obj(Num(2, 308))

====
